---- MODULE Spec2Model ----
(***************************************************************************)
(* Verification model of the NFT ticket platform: the asset-code codec of  *)
(* NFTTicketHelper (lib/nft-ticket-helper.ts), the ticket collection of    *)
(* NFTCollection.tsx, the mint form of NFTTicketMint.tsx and the account   *)
(* state of app/page.tsx.                                                  *)
(*                                                                         *)
(* A JavaScript string is a sequence of characters; a character is a       *)
(* one-element token ("a", "_", ...).  The three non-ASCII characters the  *)
(* codec treats differently from ASCII are the tokens "c_cedilla"          *)
(* (U+00E7), "sharp_s" (U+00DF) and "dotless_i" (U+0131), with their       *)
(* upper-case forms "C_CEDILLA" (U+00C7), "S" "S" and "I".                 *)
(***************************************************************************)
EXTENDS Naturals, Sequences, FiniteSets, TLC

VARIABLES
  codecIn,          \* the arguments of the codec calls under study
  codecCalls,       \* the codec calls made so far: <<[fn, result]>>
  ledger,           \* Horizon: account id -> balance lines of the account
  horizonReply,     \* outcome of the last server.loadAccount: "none", "loaded", "failed"
  localStorage,     \* window.localStorage: key -> stored (JSON) value
  now,              \* Date.now()
  publicKey,        \* the publicKey prop of NFTCollection and NFTTicketMint
  tickets,          \* NFTCollection state: tickets
  filteredTickets,  \* NFTCollection state: filteredTickets
  selectedFilter,   \* NFTCollection state: selectedFilter
  loading,          \* NFTCollection state: loading
  refreshing,       \* NFTCollection state: refreshing
  effectPending,    \* useEffect([selectedFilter, tickets]) is scheduled
  fetchPc,          \* fetchTickets: "idle", "awaiting" (getTickets pending), "done"
  fetchFilter,      \* fetchTickets: the selectedFilter its closure captured
  blockchainTickets,\* fetchTickets: what the last getTickets call resolved to
  mintPc,           \* handleMint: "idle", "awaiting" (the 2 s timer pending)
  mintLocal,        \* handleMint: ticketType, eventName and metadata of the pending run
  mintLoading,      \* NFTTicketMint state: loading
  mintAlert,        \* NFTTicketMint state: alert ("none", "error", "success")
  selectedTicket,   \* NFTCollection state: selectedTicket (NoTicket is null)
  comments,         \* NFTCollection state: comments
  newComment,       \* NFTCollection state: newComment
  showCommentsModal,\* NFTCollection state: showCommentsModal
  deletePending,    \* the deleteTicket runs suspended at their await
  collectionAlert,  \* the last window.alert of NFTCollection: "none", "policy", "error"
  lastCall,         \* the deleteTicket or addComment call the last step made, if any
  staleFetches,     \* the fetchTickets runs an earlier publicKey started, still pending
  storageThrows     \* the browser denies access to localStorage: every call throws

vars == <<codecIn, codecCalls, ledger, horizonReply, localStorage, now, publicKey,
          tickets, filteredTickets, selectedFilter, loading, refreshing,
          effectPending, fetchPc, fetchFilter, blockchainTickets, mintPc,
          mintLocal, mintLoading, mintAlert, selectedTicket, comments,
          newComment, showCommentsModal, deletePending, collectionAlert,
          lastCall, staleFetches, storageThrows>>

codecVars == <<codecIn, codecCalls>>

modalVars == <<selectedTicket, comments, newComment, showCommentsModal>>

collectionVars == <<tickets, filteredTickets, selectedFilter, loading, refreshing,
                    effectPending, fetchPc, fetchFilter, blockchainTickets,
                    horizonReply, modalVars, deletePending, staleFetches>>

mintVars == <<mintPc, mintLocal, mintLoading, mintAlert>>

appVars == <<ledger, localStorage, now, publicKey, collectionVars, mintVars,
             collectionAlert, lastCall, storageThrows>>

(***************************************************************************)
(* Bounds of the model.                                                    *)
(***************************************************************************)
MaxNameLen == 6
MaxIdLen == 5
MaxSuffixLen == 3
MaxCalls == 2
MaxBalances == 3
MaxTickets == 1
MaxClock == 1
MaxStored == 2
MaxPending == 1
MaxComments == 2

(***************************************************************************)
(* JavaScript string primitives.                                           *)
(***************************************************************************)
Range(s) == {s[i] : i \in 1..Len(s)}

Min(a, b) == IF a < b THEN a ELSE b

LowerLetters ==
  <<"a","b","c","d","e","f","g","h","i","j","k","l","m",
    "n","o","p","q","r","s","t","u","v","w","x","y","z">>

UpperLetters ==
  <<"A","B","C","D","E","F","G","H","I","J","K","L","M",
    "N","O","P","Q","R","S","T","U","V","W","X","Y","Z">>

DigitChars == <<"0","1","2","3","4","5","6","7","8","9">>

LowerSet == Range(LowerLetters)

UpperSet == Range(UpperLetters)

AlnumSet == LowerSet \cup UpperSet \cup Range(DigitChars)

\* [A-Z]
IsUpperAZ(c) == c \in UpperSet

\* [a-zA-Z0-9]
IsAlnum(c) == c \in AlnumSet

\* String.prototype.toUpperCase on one character (may yield two characters)
UpperOfChar(c) ==
  IF c \in LowerSet
  THEN <<UpperLetters[CHOOSE i \in 1..26 : LowerLetters[i] = c]>>
  ELSE IF c = "c_cedilla" THEN <<"C_CEDILLA">>
  ELSE IF c = "dotless_i" THEN <<"I">>
  ELSE IF c = "sharp_s" THEN <<"S", "S">>
  ELSE <<c>>

RECURSIVE toUpperCase(_)
toUpperCase(s) ==
  IF s = <<>> THEN <<>> ELSE UpperOfChar(Head(s)) \o toUpperCase(Tail(s))

\* s.substring(start, end) for 0 <= start <= end
substring(s, start, end) == SubSeq(s, Min(start, Len(s)) + 1, Min(end, Len(s)))

\* s.startsWith(prefix)
startsWith(s, prefix) ==
  /\ Len(prefix) <= Len(s)
  /\ SubSeq(s, 1, Len(prefix)) = prefix

\* s.replace(/[^a-zA-Z0-9]/g, '')
RECURSIVE StripNonAlnum(_)
StripNonAlnum(s) ==
  IF s = <<>> THEN <<>>
  ELSE IF IsAlnum(Head(s)) THEN <<Head(s)>> \o StripNonAlnum(Tail(s))
  ELSE StripNonAlnum(Tail(s))

\* s.replace(/([A-Z])/g, ' $1')
RECURSIVE SpaceBeforeUpper(_)
SpaceBeforeUpper(s) ==
  IF s = <<>> THEN <<>>
  ELSE IF IsUpperAZ(Head(s)) THEN <<" ", Head(s)>> \o SpaceBeforeUpper(Tail(s))
  ELSE <<Head(s)>> \o SpaceBeforeUpper(Tail(s))

RECURSIVE TrimStart(_)
TrimStart(s) ==
  IF s # <<>> /\ Head(s) = " " THEN TrimStart(Tail(s)) ELSE s

RECURSIVE TrimEnd(_)
TrimEnd(s) ==
  IF s # <<>> /\ s[Len(s)] = " " THEN TrimEnd(SubSeq(s, 1, Len(s) - 1)) ELSE s

\* s.trim()
trim(s) == TrimEnd(TrimStart(s))

(***************************************************************************)
(* TicketType and the codec of NFTTicketHelper.                            *)
(***************************************************************************)
TicketType == {"football", "university", "museum", "concert", "event"}

\* the characters of each TicketType literal
TypeChars(t) ==
  CASE t = "football"   -> <<"f","o","o","t","b","a","l","l">>
    [] t = "university" -> <<"u","n","i","v","e","r","s","i","t","y">>
    [] t = "museum"     -> <<"m","u","s","e","u","m">>
    [] t = "concert"    -> <<"c","o","n","c","e","r","t">>
    [] t = "event"      -> <<"e","v","e","n","t">>

\* faulty variant: the prefix is the first 4 letters of the type (FOOT, UNIV, MUSE)
generateAssetCodePrefix4(ticketType, eventName, ticketId) ==
  LET prefix == toUpperCase(substring(TypeChars(ticketType), 0, 4))
      eventCode == toUpperCase(substring(StripNonAlnum(eventName), 0, 5))
      id == toUpperCase(substring(ticketId, 0, 4))
  IN  substring(prefix \o eventCode \o id, 0, 12)

\* faulty variant: the id fragment is not upper-cased
generateAssetCodeIdAsIs(ticketType, eventName, ticketId) ==
  LET prefix == toUpperCase(substring(TypeChars(ticketType), 0, 3))
      eventCode == toUpperCase(substring(StripNonAlnum(eventName), 0, 5))
      id == substring(ticketId, 0, 4)
  IN  substring(prefix \o eventCode \o id, 0, 12)

generateAssetCode(ticketType, eventName, ticketId) ==
  LET prefix == toUpperCase(substring(TypeChars(ticketType), 0, 3))
      eventCode == toUpperCase(substring(StripNonAlnum(eventName), 0, 5))
      id == toUpperCase(substring(ticketId, 0, 4))
  IN  substring(prefix \o eventCode \o id, 0, 12)

ticketPrefixes ==
  << <<"F","O","O","T">>, <<"U","N","I","V">>, <<"M","U","S","E">>,
     <<"C","O","N","C">>, <<"E","V","E","N">>, <<"T","I","C","K">> >>

\* faulty variant: TICK is missing from the list
isLikelyTicketNoTick(assetCode) ==
  \E i \in 1..(Len(ticketPrefixes) - 1) :
     startsWith(assetCode, ticketPrefixes[i])

isLikelyTicket(assetCode) ==
  \E i \in 1..Len(ticketPrefixes) : startsWith(assetCode, ticketPrefixes[i])

\* faulty variant: the MUSE test compares with the whole word
inferTicketTypeMuseum(assetCode) ==
  IF startsWith(assetCode, <<"F","O","O","T">>) THEN "football"
  ELSE IF startsWith(assetCode, <<"U","N","I","V">>) THEN "university"
  ELSE IF startsWith(assetCode, <<"M","U","S","E","U","M">>) THEN "museum"
  ELSE IF startsWith(assetCode, <<"C","O","N","C">>) THEN "concert"
  ELSE "event"

inferTicketType(assetCode) ==
  IF startsWith(assetCode, <<"F","O","O","T">>) THEN "football"
  ELSE IF startsWith(assetCode, <<"U","N","I","V">>) THEN "university"
  ELSE IF startsWith(assetCode, <<"M","U","S","E">>) THEN "museum"
  ELSE IF startsWith(assetCode, <<"C","O","N","C">>) THEN "concert"
  ELSE "event"

\* the alternatives of /^(FOOT|UNIV|MUSE|CONC|EVEN)/
parsePrefixes ==
  << <<"F","O","O","T">>, <<"U","N","I","V">>, <<"M","U","S","E">>,
     <<"C","O","N","C">>, <<"E","V","E","N">> >>

\* assetCode.replace(/^(FOOT|UNIV|MUSE|CONC|EVEN)/, '')
StripTypePrefix(assetCode) ==
  IF \E i \in 1..Len(parsePrefixes) : startsWith(assetCode, parsePrefixes[i])
  THEN SubSeq(assetCode, 5, Len(assetCode))
  ELSE assetCode

parseEventName(assetCode) == trim(SpaceBeforeUpper(StripTypePrefix(assetCode)))

(***************************************************************************)
(* Horizon accounts and NFTTicketHelper.getTickets.                        *)
(***************************************************************************)
Accounts == {"GAAA", "GBBB"}

OtherIssuer == "GISS"

\* the value of a property a balance line does not carry
Undefined == <<"undefined">>

\* parseFloat of a Horizon balance string, in units of 0.0000001
parseFloat(balance) ==
  CASE balance = "0.0000000" -> 0
    [] balance = "0.0000001" -> 1
    [] balance = "1.0000000" -> 10000000

RECURSIVE Decimal(_)
Decimal(n) ==
  IF n < 10 THEN <<DigitChars[n + 1]>>
  ELSE Decimal(n \div 10) \o <<DigitChars[(n % 10) + 1]>>

\* new Date(t).toISOString()
toISOString(t) == <<"T">> \o Decimal(t) \o <<"Z">>

\* account.balances.filter(...).map(...)
ticketAssets(balances) ==
  LET Held(b) == b.asset_type # "native" /\ parseFloat(b.balance) > 0
      held == SelectSeq(balances, Held)
  IN  [i \in 1..Len(held) |->
         [assetCode |-> held[i].asset_code, issuer |-> held[i].asset_issuer,
          balance |-> held[i].balance]]

\* the NFTTicket pushed for one asset that isLikelyTicket accepts
LedgerTicket(asset, t) ==
  [assetCode |-> asset.assetCode, issuer |-> asset.issuer,
   balance |-> asset.balance,
   metadata |-> [ticketId |-> asset.assetCode,
                 type |-> inferTicketType(asset.assetCode),
                 eventName |-> parseEventName(asset.assetCode),
                 eventDate |-> toISOString(t),
                 mintedAt |-> toISOString(t)]]

\* getTickets: loaded is whether server.loadAccount resolved; a throw inside
\* the try (loadAccount rejecting, or startsWith called on an undefined
\* asset_code) ends in the catch, which returns []
getTickets(loaded, balances, t) ==
  IF ~loaded THEN <<>>
  ELSE LET assets == ticketAssets(balances)
           Likely(a) == isLikelyTicket(a.assetCode)
           kept == SelectSeq(assets, Likely)
       IN  IF \E i \in 1..Len(assets) : assets[i].assetCode = Undefined
           THEN <<>>
           ELSE [i \in 1..Len(kept) |-> LedgerTicket(kept[i], t)]

(***************************************************************************)
(* localStorage.                                                           *)
(***************************************************************************)
\* `nft_tickets_${publicKey}`
storageKey(pk) == <<"nft_tickets_", pk>>

\* JSON.parse(localStorage.getItem(key) || '[]')
getItemOrEmpty(key) ==
  IF key \in DOMAIN localStorage THEN localStorage[key] ELSE <<>>

\* localStorage.setItem(key, JSON.stringify(value))
setItem(key, value) ==
  [k \in DOMAIN localStorage \cup {key} |->
     IF k = key THEN value ELSE localStorage[k]]

(***************************************************************************)
(* NFTCollection.                                                          *)
(***************************************************************************)
FilterValues == TicketType \cup {"all"}

\* faulty variant: 'all' is treated as a ticket type
applyFilterNoAll(ticketList, filter) ==
  LET Match(t) == t.metadata.type = filter
  IN  SelectSeq(ticketList, Match)

\* the value applyFilter passes to setFilteredTickets
applyFilter(ticketList, filter) ==
  IF filter = "all" THEN ticketList
  ELSE LET Match(t) == t.metadata.type = filter
       IN  SelectSeq(ticketList, Match)

\* faulty variant: a stored ticket whose assetCode is already on the ledger is dropped
allTicketsDeduplicated(fromChain, fromStorage) ==
  LET Fresh(t) == \A i \in 1..Len(fromChain) : fromChain[i].assetCode # t.assetCode
  IN  fromChain \o SelectSeq(fromStorage, Fresh)

\* faulty variant: the stored tickets are left out
allTicketsChainOnly(fromChain, fromStorage) == fromChain

\* [...blockchainTickets, ...localTickets]
allTickets(fromChain, fromStorage) == fromChain \o fromStorage

\* null, as the value of selectedTicket
NoTicket ==
  [assetCode |-> <<>>, issuer |-> "", balance |-> "",
   metadata |-> [ticketId |-> <<>>, type |-> "event", eventName |-> <<>>,
                 eventDate |-> <<>>, mintedAt |-> <<>>]]

\* no deleteTicket or addComment call
NoCall == [op |-> "none", ticket |-> NoTicket, confirmed |-> FALSE, text |-> <<>>]

\* the state of a freshly mounted NFTCollection whose useEffect([publicKey])
\* has called fetchTickets
Mounted ==
  /\ tickets' = <<>>
  /\ filteredTickets' = <<>>
  /\ selectedFilter' = "all"
  /\ loading' = TRUE
  /\ refreshing' = TRUE
  /\ effectPending' = FALSE
  /\ fetchPc' = "awaiting"
  /\ fetchFilter' = "all"
  /\ blockchainTickets' = <<>>
  /\ horizonReply' = "none"
  /\ selectedTicket' = NoTicket
  /\ comments' = <<>>
  /\ newComment' = <<>>
  /\ showCommentsModal' = FALSE
  /\ deletePending' = <<>>
  /\ staleFetches' = <<>>

\* the refresh button: fetchTickets up to its await
FetchStart ==
  /\ ~loading /\ ~refreshing /\ ~effectPending
  /\ fetchPc # "awaiting"
  /\ refreshing' = TRUE
  /\ fetchPc' = "awaiting"
  /\ fetchFilter' = selectedFilter
  /\ lastCall' = NoCall
  /\ UNCHANGED <<codecVars, ledger, storageThrows, staleFetches,
                 localStorage, now, publicKey, mintVars,
                 modalVars, deletePending, collectionAlert,
                 tickets, filteredTickets, selectedFilter, loading,
                 effectPending, blockchainTickets, horizonReply>>

\* faulty variant: the busy flags are cleared at the end of the try, not in
\* a finally clause
FetchResolveNoFinally ==
  /\ fetchPc = "awaiting"
  /\ \E loaded \in BOOLEAN :
       LET fromChain == getTickets(loaded, ledger[publicKey], now)
           localTickets == getItemOrEmpty(storageKey(publicKey))
           all == allTickets(fromChain, localTickets)
       IN  /\ horizonReply' = IF loaded THEN "loaded" ELSE "failed"
           /\ blockchainTickets' = fromChain
           /\ IF storageThrows
              THEN \* getItem throws in the try and again in the fallback
                   UNCHANGED <<tickets, filteredTickets, effectPending>>
              ELSE /\ tickets' = all
                   /\ filteredTickets' = applyFilter(all, fetchFilter)
                   /\ effectPending' = TRUE
  /\ loading' = (storageThrows /\ loading)
  /\ refreshing' = (storageThrows /\ refreshing)
  /\ fetchPc' = "done"
  /\ fetchFilter' = "all"          \* the closure is dropped
  /\ lastCall' = NoCall
  /\ UNCHANGED <<codecVars, ledger, storageThrows, staleFetches,
                 localStorage, now, publicKey, mintVars,
                 modalVars, deletePending, collectionAlert,
                 selectedFilter>>

\* fetchTickets from the await on: getTickets resolves, then the rest runs
FetchResolve ==
  /\ fetchPc = "awaiting"
  /\ \E loaded \in BOOLEAN :
       LET fromChain == getTickets(loaded, ledger[publicKey], now)
           localTickets == getItemOrEmpty(storageKey(publicKey))
           all == allTickets(fromChain, localTickets)
       IN  /\ horizonReply' = IF loaded THEN "loaded" ELSE "failed"
           /\ blockchainTickets' = fromChain
           /\ IF storageThrows
              THEN \* getItem throws in the try and again in the fallback
                   UNCHANGED <<tickets, filteredTickets, effectPending>>
              ELSE /\ tickets' = all
                   /\ filteredTickets' = applyFilter(all, fetchFilter)
                   /\ effectPending' = TRUE
  /\ loading' = FALSE
  /\ refreshing' = FALSE
  /\ fetchPc' = "done"
  /\ fetchFilter' = "all"          \* the closure is dropped
  /\ lastCall' = NoCall
  /\ UNCHANGED <<codecVars, ledger, storageThrows, staleFetches,
                 localStorage, now, publicKey, mintVars,
                 modalVars, deletePending, collectionAlert,
                 selectedFilter>>

\* faulty variant: the effect does not run applyFilter
FilterEffectIdle ==
  /\ effectPending
  /\ filteredTickets' = filteredTickets
  /\ effectPending' = FALSE
  /\ lastCall' = NoCall
  /\ UNCHANGED <<codecVars, ledger, storageThrows, staleFetches,
                 localStorage, now, publicKey, mintVars,
                 modalVars, deletePending, collectionAlert,
                 tickets, selectedFilter, loading, refreshing, fetchPc,
                 fetchFilter, blockchainTickets, horizonReply>>

\* useEffect(() => applyFilter(tickets, selectedFilter), [selectedFilter, tickets])
FilterEffect ==
  /\ effectPending
  /\ filteredTickets' = applyFilter(tickets, selectedFilter)
  /\ effectPending' = FALSE
  /\ lastCall' = NoCall
  /\ UNCHANGED <<codecVars, ledger, storageThrows, staleFetches,
                 localStorage, now, publicKey, mintVars,
                 modalVars, deletePending, collectionAlert,
                 tickets, selectedFilter, loading, refreshing, fetchPc,
                 fetchFilter, blockchainTickets, horizonReply>>

\* a filter button: setSelectedFilter(filter.value)
SetFilter(f) ==
  /\ ~loading /\ ~effectPending
  /\ f # selectedFilter
  /\ selectedFilter' = f
  /\ effectPending' = TRUE
  /\ lastCall' = NoCall
  /\ UNCHANGED <<codecVars, ledger, storageThrows, staleFetches,
                 localStorage, now, publicKey, mintVars,
                 modalVars, deletePending, collectionAlert,
                 tickets, filteredTickets, loading, refreshing, fetchPc,
                 fetchFilter, blockchainTickets, horizonReply>>

\* faulty variant: every ticket counts as local
isLocalTicketAny(ticket) == TRUE

\* ticket.issuer === publicKey
isLocalTicket(ticket) == ticket.issuer = publicKey

\* faulty variant: the entries are compared by assetCode only
updatedTicketsByAssetCode(localTickets, ticketToDelete) ==
  LET Keep(t) == t.assetCode # ticketToDelete.assetCode
  IN  SelectSeq(localTickets, Keep)

\* localTickets.filter(t => !(t.assetCode === ticketToDelete.assetCode &&
\*                            t.metadata.ticketId === ticketToDelete.metadata.ticketId))
updatedTickets(localTickets, ticketToDelete) ==
  LET Keep(t) == ~(/\ t.assetCode = ticketToDelete.assetCode
                   /\ t.metadata.ticketId = ticketToDelete.metadata.ticketId)
  IN  SelectSeq(localTickets, Keep)

\* s without its i-th element
RemoveAt(s, i) == SubSeq(s, 1, i - 1) \o SubSeq(s, i + 1, Len(s))

\* the delete button of a card: deleteTicket up to its await.  The button is
\* rendered for the tickets isLocalTicket accepts; the handler checks again,
\* and is modelled for every ticket shown.
DeleteTicket(ticketToDelete, confirmed) ==
  /\ ~loading /\ ~effectPending
  /\ \E i \in 1..Len(filteredTickets) : filteredTickets[i] = ticketToDelete
  /\ lastCall' = [op |-> "deleteTicket", ticket |-> ticketToDelete,
                  confirmed |-> confirmed, text |-> <<>>]
  /\ IF ~confirmed
     THEN UNCHANGED <<localStorage, deletePending, collectionAlert>>
     ELSE IF ~isLocalTicket(ticketToDelete)
     THEN /\ collectionAlert' = "policy"
          /\ UNCHANGED <<localStorage, deletePending>>
     ELSE /\ Len(deletePending) < MaxPending
          /\ LET key == storageKey(publicKey)
                 updated == updatedTickets(getItemOrEmpty(key), ticketToDelete)
             IN  /\ localStorage' = setItem(key, updated)
                 /\ deletePending' =
                      Append(deletePending,
                             [ticket |-> ticketToDelete, updatedTickets |-> updated,
                              filter |-> selectedFilter, publicKey |-> publicKey])
          /\ UNCHANGED collectionAlert
  /\ UNCHANGED <<codecVars, ledger, storageThrows, staleFetches,
                 now, publicKey, mintVars, modalVars,
                 tickets, filteredTickets, selectedFilter, loading, refreshing,
                 effectPending, fetchPc, fetchFilter, blockchainTickets,
                 horizonReply>>

\* deleteTicket from the await on: getTickets resolves, then the rest runs
DeleteResolve(i) ==
  /\ i \in 1..Len(deletePending)
  /\ \E loaded \in BOOLEAN :
       LET fromChain == getTickets(loaded, ledger[deletePending[i].publicKey], now)
           all == allTickets(fromChain, deletePending[i].updatedTickets)
       IN  /\ tickets' = all
           /\ filteredTickets' = applyFilter(all, deletePending[i].filter)
  /\ effectPending' = TRUE
  /\ deletePending' = RemoveAt(deletePending, i)
  /\ lastCall' = NoCall
  /\ UNCHANGED <<codecVars, ledger, storageThrows, staleFetches,
                 localStorage, now, publicKey, mintVars,
                 modalVars, collectionAlert, selectedFilter, loading, refreshing,
                 fetchPc, fetchFilter, blockchainTickets, horizonReply>>

\* handleConnect of page.tsx called with another account while one is
\* connected (isConnected is and stays true): both components are rendered
\* again with the new publicKey prop, NFTCollection keeps its state, and its
\* useEffect([publicKey]) calls fetchTickets, which runs up to its await.  The
\* fetchTickets run still pending goes on with the publicKey it captured.
HandleConnect(key) ==
  /\ ~effectPending
  /\ key # publicKey
  /\ publicKey' = key
  /\ IF fetchPc = "awaiting"
     THEN /\ Len(staleFetches) < MaxPending
          /\ staleFetches' = Append(staleFetches,
                                    [publicKey |-> publicKey, filter |-> fetchFilter])
     ELSE UNCHANGED staleFetches
  /\ refreshing' = TRUE
  /\ fetchPc' = "awaiting"
  /\ fetchFilter' = selectedFilter
  /\ lastCall' = NoCall
  /\ UNCHANGED <<codecVars, ledger, storageThrows, localStorage, now, mintVars,
                 modalVars, deletePending, collectionAlert, tickets,
                 filteredTickets, selectedFilter, loading, effectPending,
                 blockchainTickets, horizonReply>>

\* a fetchTickets run of an earlier publicKey from its await on
StaleFetchResolve(i) ==
  /\ i \in 1..Len(staleFetches)
  /\ \E loaded \in BOOLEAN :
       LET pk == staleFetches[i].publicKey
           fromChain == getTickets(loaded, ledger[pk], now)
           localTickets == getItemOrEmpty(storageKey(pk))
           all == allTickets(fromChain, localTickets)
       IN  /\ horizonReply' = IF loaded THEN "loaded" ELSE "failed"
           /\ blockchainTickets' = fromChain
           /\ IF storageThrows
              THEN UNCHANGED <<tickets, filteredTickets, effectPending>>
              ELSE /\ tickets' = all
                   /\ filteredTickets' = applyFilter(all, staleFetches[i].filter)
                   /\ effectPending' = TRUE
  /\ loading' = FALSE
  /\ refreshing' = FALSE
  /\ staleFetches' = RemoveAt(staleFetches, i)
  /\ lastCall' = NoCall
  /\ UNCHANGED <<codecVars, ledger, storageThrows, localStorage, now, publicKey,
                 mintVars, modalVars, deletePending, collectionAlert,
                 selectedFilter, fetchPc, fetchFilter>>

(***************************************************************************)
(* The comments of NFTCollection.                                          *)
(***************************************************************************)
\* `ticket_comments_${ticket.metadata.ticketId}`
commentsKey(ticket) == <<"ticket_comments_">> \o ticket.metadata.ticketId

\* the value loadComments passes to setComments
loadComments(ticket) == getItemOrEmpty(commentsKey(ticket))

\* faulty variant: the count is read under the asset code
getCommentCountByAssetCode(ticket) ==
  Len(getItemOrEmpty(<<"ticket_comments_">> \o ticket.assetCode))

getCommentCount(ticket) == Len(getItemOrEmpty(commentsKey(ticket)))

\* the characters of the account id a holder name stands for
AddressChars(pk) ==
  IF pk = "GAAA" THEN <<"G","A","A","A","7","Q","X","2","A","A","A","1">>
  ELSE <<"G","B","B","B","5","M","K","4","B","B","B","2">>

\* stellar.formatAddress
formatAddress(address, startChars, endChars) ==
  IF Len(address) <= startChars + endChars THEN address
  ELSE SubSeq(address, 1, startChars) \o <<".", ".", ".">>
         \o SubSeq(address, Len(address) - endChars + 1, Len(address))

\* the comments button of a card
OpenCommentsModal(ticket) ==
  /\ ~loading /\ ~effectPending
  /\ \E i \in 1..Len(filteredTickets) : filteredTickets[i] = ticket
  /\ selectedTicket' = ticket
  /\ comments' = loadComments(ticket)
  /\ showCommentsModal' = TRUE
  /\ lastCall' = NoCall
  /\ UNCHANGED <<codecVars, ledger, storageThrows, staleFetches,
                 localStorage, now, publicKey, mintVars,
                 newComment, deletePending, collectionAlert, tickets,
                 filteredTickets, selectedFilter, loading, refreshing,
                 effectPending, fetchPc, fetchFilter, blockchainTickets,
                 horizonReply>>

\* the close button of the modal
CloseCommentsModal ==
  /\ showCommentsModal /\ selectedTicket # NoTicket
  /\ ~effectPending
  /\ showCommentsModal' = FALSE
  /\ selectedTicket' = NoTicket
  /\ newComment' = <<>>
  /\ comments' = <<>>
  /\ lastCall' = NoCall
  /\ UNCHANGED <<codecVars, ledger, storageThrows, staleFetches,
                 localStorage, now, publicKey, mintVars,
                 deletePending, collectionAlert, tickets, filteredTickets,
                 selectedFilter, loading, refreshing, effectPending, fetchPc,
                 fetchFilter, blockchainTickets, horizonReply>>

\* the textarea of the modal: setNewComment(e.target.value)
TypeComment(text) ==
  /\ showCommentsModal /\ selectedTicket # NoTicket
  /\ ~effectPending
  /\ text # newComment
  /\ newComment' = text
  /\ lastCall' = NoCall
  /\ UNCHANGED <<codecVars, ledger, storageThrows, staleFetches,
                 localStorage, now, publicKey, mintVars,
                 selectedTicket, comments, showCommentsModal, deletePending,
                 collectionAlert, tickets, filteredTickets, selectedFilter,
                 loading, refreshing, effectPending, fetchPc, fetchFilter,
                 blockchainTickets, horizonReply>>

\* faulty variant: the text is stored as typed
CommentUntrimmed(t, pk, text) ==
  [id |-> Decimal(t),
   author |-> formatAddress(AddressChars(pk), 4, 4),
   text |-> text,
   createdAt |-> toISOString(t)]

\* the Comment addComment builds at time t for holder pk
Comment(t, pk, text) ==
  [id |-> Decimal(t),
   author |-> formatAddress(AddressChars(pk), 4, 4),
   text |-> trim(text),
   createdAt |-> toISOString(t)]

\* the number of comments localStorage holds, over all tickets
StoredComments ==
  LET keys == {k \in DOMAIN localStorage : k[1] = "ticket_comments_"}
      RECURSIVE Sum(_)
      Sum(S) == IF S = {} THEN 0
                ELSE LET k == CHOOSE x \in S : TRUE
                     IN  Len(localStorage[k]) + Sum(S \ {k})
  IN  Sum(keys)

\* faulty variant: the new comment replaces the log
updatedCommentsLastOnly(old, comment) == <<comment>>

\* [...comments, comment]
updatedComments(old, comment) == Append(old, comment)

\* the add button of the modal: addComment.  The button is disabled while
\* the text is blank; the handler checks again, and is modelled for every text.
AddComment ==
  /\ showCommentsModal /\ selectedTicket # NoTicket
  /\ ~effectPending
  /\ lastCall' = [op |-> "addComment", ticket |-> selectedTicket,
                  confirmed |-> FALSE, text |-> newComment]
  /\ IF trim(newComment) = <<>> \/ selectedTicket = NoTicket
     THEN UNCHANGED <<localStorage, comments, newComment>>
     ELSE /\ StoredComments < MaxComments
          /\ LET comment == Comment(now, publicKey, newComment)
                 updated == updatedComments(comments, comment)
             IN  /\ comments' = updated
                 /\ localStorage' = setItem(commentsKey(selectedTicket), updated)
          /\ newComment' = <<>>
  /\ UNCHANGED <<codecVars, ledger, storageThrows, staleFetches,
                 now, publicKey, mintVars, selectedTicket,
                 showCommentsModal, deletePending, collectionAlert, tickets,
                 filteredTickets, selectedFilter, loading, refreshing,
                 effectPending, fetchPc, fetchFilter, blockchainTickets,
                 horizonReply>>

(***************************************************************************)
(* NFTTicketMint.                                                          *)
(***************************************************************************)
\* what the user may have typed into the event name and event date inputs
FormTypes == {"event", "football"}

FormNames == { <<" ">>, <<" ","N","a","b","!">> }

FormDates == { <<>>, <<"2","0","2","5">> }

\* Math.random().toString(36).substring(7)
RandomSuffixes == { <<>>, <<"k">> }

\* the delay of setTimeout(resolve, 2000), in ms
MintDelay == 2000

NoMint ==
  [ticketType |-> "event", eventName |-> <<>>, publicKey |-> "", startedAt |-> 0,
   metadata |-> [ticketId |-> <<>>, type |-> "event", eventName |-> <<>>,
                 eventDate |-> <<>>, mintedAt |-> <<>>]]

\* faulty variant: the id carries no timestamp
NewTicketIdNoTime(ticketType, t, random) ==
  TypeChars(ticketType) \o <<"_">> \o random

\* `${ticketType}_${Date.now()}_${random}`
NewTicketId(ticketType, t, random) ==
  TypeChars(ticketType) \o <<"_">> \o Decimal(t) \o <<"_">> \o random

\* faulty variant: the event date is not validated
MintStartNoDateCheck(ticketType, eventName, eventDate, random) ==
  /\ mintPc = "idle"
  /\ IF trim(eventName) = <<>>
     THEN /\ mintAlert' = "error"
          /\ UNCHANGED <<mintPc, mintLocal, mintLoading>>
     ELSE /\ mintLoading' = TRUE
          /\ mintAlert' = "none"
          /\ mintLocal' =
               [ticketType |-> ticketType, eventName |-> eventName,
                publicKey |-> publicKey, startedAt |-> now,
                metadata |-> [ticketId |-> NewTicketId(ticketType, now, random),
                              type |-> ticketType,
                              eventName |-> trim(eventName),
                              eventDate |-> trim(eventDate),
                              mintedAt |-> toISOString(now)]]
          /\ mintPc' = "awaiting"
  /\ lastCall' = NoCall
  /\ UNCHANGED <<codecVars, ledger, storageThrows,
                 localStorage, now, publicKey, collectionVars,
                 collectionAlert>>

\* handleMint up to its await
MintStart(ticketType, eventName, eventDate, random) ==
  /\ mintPc = "idle"
  /\ IF trim(eventName) = <<>> \/ trim(eventDate) = <<>>
     THEN /\ mintAlert' = "error"
          /\ UNCHANGED <<mintPc, mintLocal, mintLoading>>
     ELSE /\ mintLoading' = TRUE
          /\ mintAlert' = "none"
          /\ mintLocal' =
               [ticketType |-> ticketType, eventName |-> eventName,
                publicKey |-> publicKey, startedAt |-> now,
                metadata |-> [ticketId |-> NewTicketId(ticketType, now, random),
                              type |-> ticketType,
                              eventName |-> trim(eventName),
                              eventDate |-> trim(eventDate),
                              mintedAt |-> toISOString(now)]]
          /\ mintPc' = "awaiting"
  /\ lastCall' = NoCall
  /\ UNCHANGED <<codecVars, ledger, storageThrows,
                 localStorage, now, publicKey, collectionVars,
                 collectionAlert>>

\* faulty variant: the asset code is generated for the type 'event'
ticketDataCodeOfEvent(m) ==
  [assetCode |-> generateAssetCode("event", m.eventName, m.metadata.ticketId),
   issuer |-> m.publicKey,
   balance |-> "1",
   metadata |-> m.metadata]

\* faulty variant: the issuer is the publicKey prop of the latest render
ticketDataOfCurrentHolder(m) ==
  [assetCode |-> generateAssetCode(m.ticketType, m.eventName, m.metadata.ticketId),
   issuer |-> publicKey,
   balance |-> "1",
   metadata |-> m.metadata]

\* the NFTTicket handleMint builds in the run whose locals are m: publicKey
\* is the prop of the render the run was started from
ticketData(m) ==
  [assetCode |-> generateAssetCode(m.ticketType, m.eventName, m.metadata.ticketId),
   issuer |-> m.publicKey,
   balance |-> "1",
   metadata |-> m.metadata]

\* faulty variant: the list read from the cache is dropped
pushOntoEmpty(existingTickets, ticket) == <<ticket>>

\* existingTickets.push(ticketData)
push(existingTickets, ticket) == Append(existingTickets, ticket)

\* handleMint from the await on, which is the timer firing MintDelay ms or
\* more after the start; onSuccess() bumps refreshKey in page.tsx, which
\* remounts NFTCollection
MintFinish ==
  /\ mintPc = "awaiting"
  /\ IF storageThrows
     THEN \* getItem throws: the catch sets the alert, onSuccess is not called
          /\ mintAlert' = "error"
          /\ UNCHANGED <<localStorage, collectionVars>>
     ELSE /\ LET key == storageKey(mintLocal.publicKey)
             IN  localStorage' =
                   setItem(key, push(getItemOrEmpty(key), ticketData(mintLocal)))
          /\ mintAlert' = "success"
          /\ Mounted
  /\ mintLoading' = FALSE
  /\ mintLocal' = NoMint
  /\ mintPc' = "idle"
  /\ now' = IF now < mintLocal.startedAt + MintDelay
             THEN mintLocal.startedAt + MintDelay ELSE now
  /\ lastCall' = NoCall
  /\ UNCHANGED <<codecVars, ledger, storageThrows, publicKey, collectionAlert>>

\* a millisecond passes (at most MaxClock of them between two timer expiries)
Tick ==
  /\ now % MintDelay < MaxClock
  /\ now' = now + 1
  /\ lastCall' = NoCall
  /\ UNCHANGED <<codecVars, ledger, storageThrows,
                 localStorage, publicKey, collectionVars,
                 mintVars, collectionAlert>>

(***************************************************************************)
(* The codec under study: the argument sets and one action per function.   *)
(***************************************************************************)
\* all strings over alphabet of length at most n
Strs(alphabet, n) == UNION {[1..k -> alphabet] : k \in 0..n}

NameAlphabet == {"a", "7", " "}

IdAlphabet == {"a", "_", "sharp_s"}

CodeAlphabet == {"T", "a", "1"}

Galatasaray ==
  <<"G","a","l","a","t","a","s","a","r","a","y"," ","v","s"," ",
    "F","e","n","e","r","b","a","h","c_cedilla","e">>

SampleNames ==
  { Galatasaray,
    <<>>,
    <<"-", " ", "!">>,
    <<"a","b","c","d">>,
    <<"dotless_i","c_cedilla","a","b","sharp_s","Z">>,
    <<"R","o","c","k","!"," ","2","0","2","5">> }

SampleIds ==
  { <<>>,
    <<"a","b","c","d","1","2","3","4">>,
    <<"a","_","b","1">>,
    <<"e","v","e","n","t","_","1","7","_","x","9">>,
    <<"sharp_s","sharp_s","sharp_s","sharp_s">> }

EncodeInputs ==
  (TicketType \X Strs(NameAlphabet, MaxNameLen) \X SampleIds)
    \cup (TicketType \X SampleNames \X Strs(IdAlphabet, MaxIdLen))
    \cup (TicketType \X SampleNames \X SampleIds)

CodeHeads ==
  { <<>>, <<"U","S","D">>, <<"X","Y","Z","1">>, <<"f","o","o","t">>,
    <<"X","F","O","O","T">>, <<"F","O","O">>, <<"U","N","I">>,
    <<"M","U","S">>, <<"C","O","N">>, <<"E","V","E">>, <<"T","I","C">> }
    \cup Range(ticketPrefixes)

SampleCodes ==
  { <<"F","O","O","T","G","A","L","A","T","A","B","C","D">>,
    <<"X","Y","Z","1","2","3","4","5","6","7","8","9">>,
    <<"T","I","C","K","X","X","X","X">>,
    <<"U","N","I","V","R","o","c","k","2","0","2","5">> }

DecodeInputs ==
  {h \o t : h \in CodeHeads, t \in Strs(CodeAlphabet, MaxSuffixLen)}
    \cup SampleCodes

NoCodecIn ==
  [kind |-> "none", ticketType |-> "event", eventName |-> <<>>,
   ticketId |-> <<>>, assetCode |-> <<>>]

CodecArguments ==
  /\ codecCalls = <<>>
  /\ \/ \E e \in EncodeInputs :
          codecIn = [kind |-> "encode", ticketType |-> e[1], eventName |-> e[2],
                     ticketId |-> e[3], assetCode |-> <<>>]
     \/ \E c \in DecodeInputs :
          codecIn = [kind |-> "decode", ticketType |-> "event",
                     eventName |-> <<>>, ticketId |-> <<>>, assetCode |-> c]

CallGenerateAssetCode ==
  /\ codecIn.kind = "encode"
  /\ Len(codecCalls) < MaxCalls
  /\ codecCalls' = Append(codecCalls,
       [fn |-> "generateAssetCode",
        result |-> generateAssetCode(codecIn.ticketType, codecIn.eventName,
                                     codecIn.ticketId)])
  /\ UNCHANGED <<codecIn, appVars>>

CallIsLikelyTicket ==
  /\ codecIn.kind = "decode"
  /\ Len(codecCalls) < MaxCalls
  /\ codecCalls' = Append(codecCalls,
       [fn |-> "isLikelyTicket", result |-> isLikelyTicket(codecIn.assetCode)])
  /\ UNCHANGED <<codecIn, appVars>>

CallInferTicketType ==
  /\ codecIn.kind = "decode"
  /\ Len(codecCalls) < MaxCalls
  /\ codecCalls' = Append(codecCalls,
       [fn |-> "inferTicketType", result |-> inferTicketType(codecIn.assetCode)])
  /\ UNCHANGED <<codecIn, appVars>>

CallParseEventName ==
  /\ codecIn.kind = "decode"
  /\ Len(codecCalls) < MaxCalls
  /\ codecCalls' = Append(codecCalls,
       [fn |-> "parseEventName", result |-> parseEventName(codecIn.assetCode)])
  /\ UNCHANGED <<codecIn, appVars>>

CodecNext ==
  \/ CallGenerateAssetCode
  \/ CallIsLikelyTicket
  \/ CallInferTicketType
  \/ CallParseEventName

(***************************************************************************)
(* Specifications.                                                         *)
(***************************************************************************)
NativeLine ==
  [asset_type |-> "native", asset_code |-> Undefined,
   asset_issuer |-> "undefined", balance |-> "1.0000000"]

PoolShareLine ==
  [asset_type |-> "liquidity_pool_shares", asset_code |-> Undefined,
   asset_issuer |-> "undefined", balance |-> "1.0000000"]

CreditLine(code, issuer, balance) ==
  [asset_type |-> IF Len(code) <= 4 THEN "credit_alphanum4"
                  ELSE "credit_alphanum12",
   asset_code |-> code, asset_issuer |-> issuer, balance |-> balance]

FootCode == <<"F","O","O","T","G","s","1">>

MintedCode == <<"E","V","E","N","A","B","E","V","E","N">>

MuseCode == <<"M","U","S","E","U","m">>

TickCode == <<"T","I","C","K","A","1">>

UsdCode == <<"U","S","D">>

\* the balance lines the accounts of the ledger are made of
BalanceLines ==
  { NativeLine, PoolShareLine,
    CreditLine(FootCode, OtherIssuer, "1.0000000"),
    CreditLine(FootCode, OtherIssuer, "0.0000000"),
    CreditLine(UsdCode, OtherIssuer, "1.0000000"),
    CreditLine(MintedCode, "GAAA", "1.0000000"),
    CreditLine(TickCode, OtherIssuer, "0.0000001"),
    CreditLine(MuseCode, OtherIssuer, "1.0000000") }

\* the accounts the application is run against
LedgerScenarios ==
  { <<CreditLine(MintedCode, "GAAA", "1.0000000"), NativeLine,
      CreditLine(UsdCode, OtherIssuer, "1.0000000"),
      CreditLine(FootCode, OtherIssuer, "0.0000000"),
      CreditLine(MuseCode, OtherIssuer, "1.0000000")>>,
    <<PoolShareLine, CreditLine(FootCode, OtherIssuer, "1.0000000")>> }

\* NFTCollection and NFTTicketMint just mounted for holder pk
ComponentsInit(pk) ==
  /\ publicKey = pk
  /\ tickets = <<>>
  /\ filteredTickets = <<>>
  /\ selectedFilter = "all"
  /\ loading = TRUE
  /\ refreshing = TRUE
  /\ effectPending = FALSE
  /\ fetchPc = "awaiting"
  /\ fetchFilter = "all"
  /\ blockchainTickets = <<>>
  /\ horizonReply = "none"
  /\ mintPc = "idle"
  /\ mintLocal = NoMint
  /\ mintLoading = FALSE
  /\ mintAlert = "none"
  /\ selectedTicket = NoTicket
  /\ comments = <<>>
  /\ newComment = <<>>
  /\ showCommentsModal = FALSE
  /\ deletePending = <<>>
  /\ staleFetches = <<>>
  /\ collectionAlert = "none"
  /\ lastCall = NoCall

\* the same, in a browser with an empty, working localStorage at time 0
AppInit(pk) ==
  /\ localStorage = << >>
  /\ storageThrows = FALSE
  /\ now = 0
  /\ ComponentsInit(pk)

Init ==
  /\ codecIn = NoCodecIn
  /\ codecCalls = <<>>
  /\ \E balances \in LedgerScenarios : ledger = [a \in Accounts |-> balances]
  /\ AppInit("GAAA")

Next ==
  \/ FetchStart
  \/ FetchResolve
  \/ FilterEffect
  \/ \E f \in FilterValues : SetFilter(f)
  \/ /\ Len(getItemOrEmpty(storageKey(publicKey))) < MaxTickets
     /\ \E ticketType \in FormTypes, eventName \in FormNames,
           eventDate \in FormDates, random \in RandomSuffixes :
          MintStart(ticketType, eventName, eventDate, random)
  \/ MintFinish
  \/ Tick

Spec == Init /\ [][Next]_vars

\* the codec functions applied to bounded sets of arguments
CodecInit ==
  /\ CodecArguments
  /\ ledger = [a \in Accounts |-> <<>>]
  /\ AppInit("GAAA")

SpecCodec == CodecInit /\ [][CodecNext]_vars

LedgerInit ==
  /\ codecIn = NoCodecIn
  /\ codecCalls = <<>>
  /\ \E balances \in Strs(BalanceLines, MaxBalances) :
       ledger = [a \in Accounts |-> balances]
  /\ \E pk \in Accounts : AppInit(pk)

LedgerNext ==
  \/ FetchStart
  \/ FetchResolve
  \/ FilterEffect
  \/ Tick

\* fetchTickets against every account of at most MaxBalances balance lines
SpecLedger == LedgerInit /\ [][LedgerNext]_vars

\* a second issuer of the asset code FOOTGs1
SecondIssuer == "GIS2"

\* the accounts the delete and comment handlers are run against: one holds
\* the same asset code from two issuers, the other an asset it issued itself
StoreScenarios ==
  { <<CreditLine(FootCode, OtherIssuer, "1.0000000"),
      CreditLine(FootCode, SecondIssuer, "1.0000000")>>,
    <<CreditLine(MintedCode, "GAAA", "1.0000000")>> }

StoredName == <<" ","N","a","b","!">>

StoredDate == <<"2","0","2","5">>

\* the k-th ticket an earlier session of pk minted: what handleMint stores
\* for a mint started at (k - 1) * MintDelay
EarlierTicket(pk, k) ==
  LET startedAt == (k - 1) * MintDelay
      ticketType == IF k <= 2 THEN "event" ELSE "football"
      ticketId == NewTicketId(ticketType, startedAt, <<"k">>)
  IN  [assetCode |-> generateAssetCode(ticketType, StoredName, ticketId),
       issuer |-> pk,
       balance |-> "1",
       metadata |-> [ticketId |-> ticketId,
                     type |-> ticketType,
                     eventName |-> trim(StoredName),
                     eventDate |-> trim(StoredDate),
                     mintedAt |-> toISOString(startedAt)]]

\* the delete specification starts no mint after the first has finished
StoreEnd == (MaxStored + 1) * MintDelay

\* the page reloaded after an earlier session stored MaxStored tickets
DeleteInit ==
  /\ codecIn = NoCodecIn
  /\ codecCalls = <<>>
  /\ \E balances \in StoreScenarios : ledger = [a \in Accounts |-> balances]
  /\ localStorage =
       (storageKey("GAAA") :> [k \in 1..MaxStored |-> EarlierTicket("GAAA", k)])
  /\ storageThrows = FALSE
  /\ now = MaxStored * MintDelay
  /\ ComponentsInit("GAAA")

DeleteNext ==
  \/ FetchStart
  \/ FetchResolve
  \/ FilterEffect
  \/ \E ticket \in Range(filteredTickets), confirmed \in BOOLEAN :
       DeleteTicket(ticket, confirmed)
  \/ \E i \in 1..Len(deletePending) : DeleteResolve(i)
  \/ /\ now < StoreEnd
     /\ Len(getItemOrEmpty(storageKey(publicKey))) < MaxTickets
     /\ MintStart("football", StoredName, StoredDate, <<"k">>)
  \/ MintFinish

\* fetch, delete and one mint over a cache of MaxStored tickets
SpecDelete == DeleteInit /\ [][DeleteNext]_vars

\* what the user may type into the textarea of the comments modal
CommentTexts == { <<" ">>, <<" ","o","k"," ">>, <<"h","i">> }

\* the comments specification starts no mint after the first has finished
CommentsEnd == MintDelay

\* the application started with an empty localStorage for a holder of the
\* same asset code from two issuers
CommentsInit ==
  /\ codecIn = NoCodecIn
  /\ codecCalls = <<>>
  /\ ledger = [a \in Accounts |->
                 <<CreditLine(FootCode, OtherIssuer, "1.0000000"),
                   CreditLine(FootCode, SecondIssuer, "1.0000000")>>]
  /\ AppInit("GAAA")

CommentsNext ==
  \/ FetchStart
  \/ FetchResolve
  \/ FilterEffect
  \/ \E ticket \in Range(filteredTickets) : OpenCommentsModal(ticket)
  \/ CloseCommentsModal
  \/ \E text \in CommentTexts : TypeComment(text)
  \/ AddComment
  \/ Tick

\* the comments modal and the clock
SpecComments == CommentsInit /\ [][CommentsNext]_vars

LifeNext ==
  \/ FetchStart
  \/ FetchResolve
  \/ FilterEffect
  \/ \E ticket \in Range(filteredTickets) : DeleteTicket(ticket, TRUE)
  \/ \E i \in 1..Len(deletePending) : DeleteResolve(i)
  \/ \E ticket \in Range(filteredTickets) : OpenCommentsModal(ticket)
  \/ CloseCommentsModal
  \/ \E text \in CommentTexts : TypeComment(text)
  \/ AddComment
  \/ /\ now < CommentsEnd
     /\ Len(getItemOrEmpty(storageKey(publicKey))) < MaxTickets
     /\ MintStart("football", StoredName, StoredDate, <<"k">>)
  \/ MintFinish

\* the comments modal with fetch, delete and one mint
SpecLife == CommentsInit /\ [][LifeNext]_vars

\* the filters the user chooses from in the overlap specification
OverlapFilters == {"all", "event"}

\* the overlap specification starts no mint after MaxStored timers have fired
OverlapEnd == MaxStored * MintDelay

\* the application started with an empty localStorage for a holder of one
\* ticket asset
OverlapInit ==
  /\ codecIn = NoCodecIn
  /\ codecCalls = <<>>
  /\ ledger = [a \in Accounts |->
                 <<CreditLine(FootCode, OtherIssuer, "1.0000000")>>]
  /\ AppInit("GAAA")

OverlapNext ==
  \/ FetchStart
  \/ FetchResolve
  \/ FilterEffect
  \/ \E f \in OverlapFilters : SetFilter(f)
  \/ \E ticket \in Range(filteredTickets) : DeleteTicket(ticket, TRUE)
  \/ \E i \in 1..Len(deletePending) : DeleteResolve(i)
  \/ /\ now < OverlapEnd
     /\ Len(getItemOrEmpty(storageKey(publicKey))) < MaxStored
     /\ MintStart("event", StoredName, StoredDate, <<"k">>)
  \/ MintFinish

\* mints, deletes and filter changes that overlap
SpecOverlap == OverlapInit /\ [][OverlapNext]_vars

\* the connect specification starts no mint after two timers have fired
ConnectEnd == 3 * MintDelay

\* the page reloaded after an earlier session of GBBB stored one ticket; the
\* two accounts hold different ticket assets
ConnectInit ==
  /\ codecIn = NoCodecIn
  /\ codecCalls = <<>>
  /\ ledger = [a \in Accounts |->
                 IF a = "GAAA"
                 THEN <<CreditLine(FootCode, OtherIssuer, "1.0000000")>>
                 ELSE <<CreditLine(MuseCode, OtherIssuer, "1.0000000")>>]
  /\ localStorage = (storageKey("GBBB") :> <<EarlierTicket("GBBB", 1)>>)
  /\ storageThrows = FALSE
  /\ now = MintDelay
  /\ ComponentsInit("GAAA")

ConnectNext ==
  \/ FetchStart
  \/ FetchResolve
  \/ \E i \in 1..Len(staleFetches) : StaleFetchResolve(i)
  \/ FilterEffect
  \/ \E key \in Accounts : HandleConnect(key)
  \/ /\ now < ConnectEnd
     /\ Len(getItemOrEmpty(storageKey(publicKey))) < MaxStored
     /\ MintStart("football", StoredName, StoredDate, <<"k">>)
  \/ MintFinish

\* the connected account changes while fetches and mints are pending
SpecConnect == ConnectInit /\ [][ConnectNext]_vars

\* the busy specification starts no mint after two timers have fired
BusyEnd == 2 * MintDelay

\* the application started at time 0 in a browser whose localStorage is
\* empty and works, or denies every access
BusyInit ==
  /\ codecIn = NoCodecIn
  /\ codecCalls = <<>>
  /\ ledger = [a \in Accounts |->
                 <<CreditLine(FootCode, OtherIssuer, "1.0000000")>>]
  /\ localStorage = << >>
  /\ storageThrows \in BOOLEAN
  /\ now = 0
  /\ ComponentsInit("GAAA")

BusyNext ==
  \/ FetchStart
  \/ FetchResolve
  \/ FilterEffect
  \/ \E f \in OverlapFilters : SetFilter(f)
  \/ /\ now < BusyEnd
     /\ Len(getItemOrEmpty(storageKey(publicKey))) < MaxStored
     /\ \E eventName \in FormNames, eventDate \in FormDates :
          MintStart("event", eventName, eventDate, <<"k">>)
  \/ MintFinish
  \/ Tick

\* the promise of getTickets settles (getTickets catches what loadAccount
\* throws) and the timer of handleMint fires
BusyFairness == WF_vars(FetchResolve) /\ WF_vars(MintFinish)

\* fetches and mints with a localStorage that may deny access, under fairness
SpecBusy == BusyInit /\ [][BusyNext]_vars /\ BusyFairness

(***************************************************************************)
(* The claims.  The words of a claim are written with the operators below, *)
(* not with the operators that model the code.                             *)
(***************************************************************************)
\* the first n characters of s
FirstN(s, n) == SubSeq(s, 1, IF n < Len(s) THEN n ELSE Len(s))

UpperOrDigit == UpperSet \cup Range(DigitChars)

CallsOf(fn) == {i \in 1..Len(codecCalls) : codecCalls[i].fn = fn}

\* prefix, event fragment and id fragment as section 4.1 words them
PrefixOf(ticketType) == toUpperCase(FirstN(TypeChars(ticketType), 3))

EventFragmentOf(eventName) == FirstN(toUpperCase(StripNonAlnum(eventName)), 5)

IdFragmentOf(ticketId) == toUpperCase(FirstN(ticketId, 4))

\* C1: every code generateAssetCode returns has at most 12 characters, each
\* an upper-case letter or a digit, whatever the ticketId contains.
C1_CodeIsUpperAlnum12 ==
  \A i \in CallsOf("generateAssetCode") :
     /\ Len(codecCalls[i].result) <= 12
     /\ \A k \in 1..Len(codecCalls[i].result) :
          codecCalls[i].result[k] \in UpperOrDigit

IsGalatasarayCall ==
  /\ codecIn.kind = "encode"
  /\ codecIn.ticketType = "football"
  /\ codecIn.eventName = Galatasaray
  /\ codecIn.ticketId = <<"a","b","c","d","1","2","3","4">>

FOOT == <<"F","O","O","T">>

UNIV == <<"U","N","I","V">>

MUSE == <<"M","U","S","E">>

CONC == <<"C","O","N","C">>

EVEN == <<"E","V","E","N">>

TICK == <<"T","I","C","K">>

\* C4: inferTicketType is football, university, museum, concert for a code
\* that starts with FOOT, UNIV, MUSE, CONC and event for every other code;
\* at most one of the four prefixes matches a code.
C4_InferTicketTypeByPrefix ==
  \A i \in CallsOf("inferTicketType") :
     LET head == FirstN(codecIn.assetCode, 4)
         r == codecCalls[i].result
     IN  /\ head = FOOT => r = "football"
         /\ head = UNIV => r = "university"
         /\ head = MUSE => r = "museum"
         /\ head = CONC => r = "concert"
         /\ head \notin {FOOT, UNIV, MUSE, CONC} => r = "event"
         /\ Cardinality({p \in {FOOT, UNIV, MUSE, CONC} :
                           startsWith(codecIn.assetCode, p)}) <= 1

\* a MUSE code longer than its prefix has been typed museum
C4_Witness ==
  \E i \in CallsOf("inferTicketType") :
     /\ codecCalls[i].result = "museum"
     /\ Len(codecIn.assetCode) > 4

\* C5: isLikelyTicket is true exactly for the codes that start with FOOT,
\* UNIV, MUSE, CONC, EVEN or TICK.
C5_IsLikelyTicketIffPrefix ==
  \A i \in CallsOf("isLikelyTicket") :
     codecCalls[i].result =
       (/\ Len(codecIn.assetCode) >= 4
        /\ FirstN(codecIn.assetCode, 4) \in {FOOT, UNIV, MUSE, CONC, EVEN, TICK})

\* TICKXXXX has been accepted
C5_Witness ==
  \E i \in CallsOf("isLikelyTicket") :
     /\ codecIn.assetCode = <<"T","I","C","K","X","X","X","X">>
     /\ codecCalls[i].result = TRUE

\* s with a space before each upper-case letter that is not its first character
RECURSIVE SpacedFrom(_, _)
SpacedFrom(s, k) ==
  IF k > Len(s) THEN <<>>
  ELSE (IF k > 1 /\ s[k] \in UpperSet THEN <<" ", s[k]>> ELSE <<s[k]>>)
         \o SpacedFrom(s, k + 1)

\* C6: for a code isLikelyTicket accepts, parseEventName is the code after
\* its 4-letter prefix with a space before each upper-case letter but the
\* first, without leading or trailing space.
C6_ParseEventNameDropsPrefix ==
  \A i \in CallsOf("parseEventName") :
     FirstN(codecIn.assetCode, 4) \in {FOOT, UNIV, MUSE, CONC, EVEN, TICK} =>
       LET r == codecCalls[i].result
       IN  /\ r = SpacedFrom(SubSeq(codecIn.assetCode, 5, Len(codecIn.assetCode)), 1)
           /\ r # <<>> => r[1] # " " /\ r[Len(r)] # " "

\* the TicketCache of the connected holder
Cache == getItemOrEmpty(storageKey(publicKey))

\* a holding the claim counts as a ticket: non-native, balance above 0, and a
\* code that starts with one of the six ticket prefixes
IsTicketHolding(b) ==
  /\ b.asset_type # "native"
  /\ b.balance \notin {"0.0000000"}
  /\ b.asset_code # Undefined
  /\ FirstN(b.asset_code, 4) \in {FOOT, UNIV, MUSE, CONC, EVEN, TICK}

\* C7: when the account has been loaded, getTickets returns, in the order of
\* the balance list, one ticket for each ticket holding and no other, with
\* the holding's assetCode, issuer and balance, the type inferTicketType
\* gives and the event name parseEventName gives.
C7_GetTicketsOnePerTicketHolding ==
  fetchPc = "done" /\ horizonReply = "loaded" =>
    LET holdings == SelectSeq(ledger[publicKey], IsTicketHolding)
    IN  /\ Len(blockchainTickets) = Len(holdings)
        /\ \A i \in 1..Len(holdings) :
             LET t == blockchainTickets[i]
             IN  /\ t.assetCode = holdings[i].asset_code
                 /\ t.issuer = holdings[i].asset_issuer
                 /\ t.balance = holdings[i].balance
                 /\ t.metadata.type = inferTicketType(holdings[i].asset_code)
                 /\ t.metadata.eventName = parseEventName(holdings[i].asset_code)

\* C8: a completed fetchTickets leaves the ledger-sourced tickets followed by
\* the cached tickets, each in its own order, nothing dropped or merged: the
\* length is the sum of the two lengths.
C8_CollectionIsLedgerThenCache ==
  fetchPc = "done" =>
    /\ Len(tickets) = Len(blockchainTickets) + Len(Cache)
    /\ \A i \in 1..Len(blockchainTickets) : tickets[i] = blockchainTickets[i]
    /\ \A j \in 1..Len(Cache) : tickets[Len(blockchainTickets) + j] = Cache[j]

\* a fetch has completed with an assetCode both on the ledger and in the cache
C8_Witness ==
  /\ fetchPc = "done"
  /\ \E i \in 1..Len(blockchainTickets), j \in 1..Len(Cache) :
       /\ blockchainTickets[i].assetCode = Cache[j].assetCode
       /\ tickets[i].assetCode = tickets[Len(blockchainTickets) + j].assetCode

\* C9: when the account load throws, fetchTickets still completes and the
\* collection is the cache, in cache order, with nothing from the ledger.
C9_LedgerFailureLeavesCache ==
  fetchPc = "done" /\ horizonReply = "failed" =>
    /\ blockchainTickets = <<>>
    /\ tickets = Cache
    /\ ~loading /\ ~refreshing

\* the account load threw while the cache held a ticket
C9_Witness ==
  /\ fetchPc = "done"
  /\ horizonReply = "failed"
  /\ Cache # <<>>
  /\ tickets = Cache

\* the k-th index, in increasing order, of the tickets of c whose type is f
KthOfType(c, f, k) ==
  CHOOSE i \in 1..Len(c) :
    /\ c[i].metadata.type = f
    /\ Cardinality({j \in 1..i : c[j].metadata.type = f}) = k

\* r is c itself for 'all', and otherwise the tickets of c of type f, in order
IsFilterOf(r, c, f) ==
  IF f = "all" THEN r = c
  ELSE /\ Len(r) = Cardinality({i \in 1..Len(c) : c[i].metadata.type = f})
       /\ \A k \in 1..Len(r) : r[k] = c[KthOfType(c, f, k)]

\* C10: each applyFilter(c, f), in the effect on (selectedFilter, tickets)
\* and at the end of fetchTickets, sets filteredTickets to c itself for
\* 'all' and otherwise to the tickets of c of type f in their order, and
\* leaves c as it is.
C10_ApplyFilterIsSubsequenceOfType ==
  [][/\ (effectPending /\ ~effectPending' /\ mintPc' = mintPc) =>
          /\ IsFilterOf(filteredTickets', tickets, selectedFilter)
          /\ tickets' = tickets
     /\ (fetchPc = "awaiting" /\ fetchPc' = "done") =>
          IsFilterOf(filteredTickets', tickets', fetchFilter)]_vars

\* a type filter keeps two of three tickets, the first and the last
C10_Witness ==
  /\ ~effectPending
  /\ selectedFilter # "all"
  /\ Len(tickets) = 3
  /\ filteredTickets = <<tickets[1], tickets[3]>>
  /\ tickets[2].metadata.type # selectedFilter

\* the step is a confirmed deleteTicket call
IsConfirmedDelete == lastCall'.op = "deleteTicket" /\ lastCall'.confirmed

\* the ticket is an entry of the TicketCache of the connected holder
IsCached(ticket) == \E i \in 1..Len(Cache) : Cache[i] = ticket

\* C11: a confirmed deleteTicket call for a ticket whose issuer is not the
\* holder ends with the policy alert and changes neither localStorage (the
\* TicketCache) nor tickets nor filteredTickets, and starts no ledger query.
C11_ForeignTicketDeleteIsRefused ==
  [][(IsConfirmedDelete /\ lastCall'.ticket.issuer # publicKey) =>
       /\ collectionAlert' = "policy"
       /\ localStorage' = localStorage
       /\ tickets' = tickets
       /\ filteredTickets' = filteredTickets
       /\ deletePending' = deletePending]_vars

\* a ledger ticket of another issuer has been refused while the cache and
\* the collection held tickets
C11_Witness ==
  /\ lastCall.op = "deleteTicket" /\ lastCall.confirmed
  /\ lastCall.ticket.issuer = OtherIssuer
  /\ collectionAlert = "policy"
  /\ Len(Cache) = MaxStored
  /\ \E i \in 1..Len(filteredTickets) : filteredTickets[i] = lastCall.ticket

\* s without its i-th entry, the others in their order
Without(s, i) ==
  [k \in 1..(Len(s) - 1) |-> IF k < i THEN s[k] ELSE s[k + 1]]

\* C12: a confirmed deleteTicket call for a ticket A of the holder that is in
\* the cache removes one entry, the only one with A's assetCode and ticketId,
\* and leaves the other entries as they are and in their order; the cache is
\* one entry shorter.
C12_DeleteRemovesExactlyTheTicket ==
  [][(/\ IsConfirmedDelete
      /\ lastCall'.ticket.issuer = publicKey
      /\ IsCached(lastCall'.ticket)) =>
       \E i \in 1..Len(Cache) :
          /\ Cache[i].assetCode = lastCall'.ticket.assetCode
          /\ Cache[i].metadata.ticketId = lastCall'.ticket.metadata.ticketId
          /\ Cache' = Without(Cache, i)
          /\ Len(Cache') = Len(Cache) - 1]_vars

\* a cached ticket has been deleted and a cached ticket with the same
\* assetCode is still there
C12_Witness ==
  /\ lastCall.op = "deleteTicket" /\ lastCall.confirmed
  /\ lastCall.ticket.issuer = publicKey
  /\ ~IsCached(lastCall.ticket)
  /\ \E i \in 1..Len(Cache) :
       /\ Cache[i].assetCode = lastCall.ticket.assetCode
       /\ Cache[i].metadata.ticketId # lastCall.ticket.metadata.ticketId

\* C13: a confirmed deleteTicket call is accepted only for a ticket of the
\* holder that is an entry of the cache: for every other ticket, a ledger
\* holding the holder issued included, it ends with the policy alert and
\* changes nothing; no deleteTicket call changes the ledger.
C13_OnlyCachedTicketsAreDeletable ==
  [][IsConfirmedDelete =>
       /\ ledger' = ledger
       /\ ~(lastCall'.ticket.issuer = publicKey /\ IsCached(lastCall'.ticket)) =>
            /\ collectionAlert' = "policy"
            /\ localStorage' = localStorage
            /\ deletePending' = deletePending]_vars

\* the comment log localStorage holds for ticketId
LogOf(ticketId) ==
  LET key == <<"ticket_comments_">> \o ticketId
  IN  IF key \in DOMAIN localStorage THEN localStorage[key] ELSE <<>>

\* the comment log localStorage holds for ticketId after the step
NextLogOf(ticketId) ==
  LET key == <<"ticket_comments_">> \o ticketId
  IN  IF key \in DOMAIN localStorage' THEN localStorage'[key] ELSE <<>>

\* the step is an addComment call
IsAddComment == lastCall'.op = "addComment"

\* leading and trailing spaces
IsBlank(text) == \A i \in 1..Len(text) : text[i] = " "

\* C14: an addComment call with a text that is empty after trimming ends
\* with a validation error shown to the caller and leaves localStorage, and
\* so the comment log of every ticket, unchanged.
C14_BlankCommentIsValidationError ==
  [][(IsAddComment /\ IsBlank(lastCall'.text)) =>
       /\ collectionAlert' = "validation"
       /\ localStorage' = localStorage]_vars

\* the display form of the holder's account id
AuthorOf(pk) ==
  LET a == AddressChars(pk)
  IN  SubSeq(a, 1, 4) \o <<".", ".", ".">> \o SubSeq(a, Len(a) - 3, Len(a))

\* text without its leading and trailing spaces
Trimmed(text) ==
  LET inner == {i \in 1..Len(text) : text[i] # " "}
  IN  IF inner = {} THEN <<>>
      ELSE SubSeq(text, CHOOSE i \in inner : \A j \in inner : i <= j,
                        CHOOSE i \in inner : \A j \in inner : j <= i)

\* C15: each addComment call with a text that is not blank puts one comment
\* at the end of the log of the ticket's ticketId, with the id of the current
\* time, the holder as author and the trimmed text, and leaves the comments
\* before it as they were; each openCommentsModal call loads exactly that log.
C15_AppendThenListRoundTrip ==
  [][/\ (IsAddComment /\ ~IsBlank(lastCall'.text)) =>
          LET id == lastCall'.ticket.metadata.ticketId
              old == LogOf(id)
              new == NextLogOf(id)
          IN  /\ Len(new) = Len(old) + 1
              /\ \A i \in 1..Len(old) : new[i] = old[i]
              /\ new[Len(new)].id = Decimal(now)
              /\ new[Len(new)].author = AuthorOf(publicKey)
              /\ new[Len(new)].text = Trimmed(lastCall'.text)
              /\ comments' = new
     /\ (showCommentsModal' /\ selectedTicket' # selectedTicket) =>
          comments' = NextLogOf(selectedTicket'.metadata.ticketId)]_vars

\* two comments were appended at different times, the modal was closed and
\* opened again, and the list shows both in the order of their appends
C15_Witness ==
  /\ showCommentsModal
  /\ lastCall.op = "none"
  /\ Len(comments) = 2
  /\ comments[1].id = <<"0">> /\ comments[1].text = <<"o","k">>
  /\ comments[2].id = <<"1">> /\ comments[2].text = <<"h","i">>
  /\ comments = LogOf(selectedTicket.metadata.ticketId)

\* C16: getCommentCount of every ticket of the collection is the length of
\* the log of its ticketId, 0 without a log; while the modal is open the
\* list it shows is as long as getCommentCount of its ticket.
C16_CountIsLengthOfList ==
  /\ \A i \in 1..Len(tickets) :
       getCommentCount(tickets[i]) = Len(LogOf(tickets[i].metadata.ticketId))
  /\ (showCommentsModal /\ selectedTicket # NoTicket) =>
       Len(comments) = getCommentCount(selectedTicket)

\* the modal shows the one comment of a cached ticket while another ticket
\* of the collection has none
C16_Witness ==
  /\ showCommentsModal
  /\ selectedTicket.issuer = publicKey
  /\ selectedTicket.metadata.ticketId # selectedTicket.assetCode
  /\ Len(comments) = 1
  /\ getCommentCount(selectedTicket) = 1
  /\ \E i \in 1..Len(tickets) : getCommentCount(tickets[i]) = 0

\* the keys of the comment logs in localStorage
CommentKeys == {k \in DOMAIN localStorage : k[1] = "ticket_comments_"}

\* C17: no step (append, modal, mint, fetch, delete) removes or changes a
\* stored comment: every log is still there after the step and starts with
\* the log before the step.
C17_LogsAreAppendOnly ==
  [][\A k \in CommentKeys :
       /\ k \in DOMAIN localStorage'
       /\ Len(localStorage'[k]) >= Len(localStorage[k])
       /\ \A i \in 1..Len(localStorage[k]) :
            localStorage'[k][i] = localStorage[k][i]]_vars

\* a ticket with two comments has been deleted: it is neither in the cache
\* nor in the collection, and its log is still there
C17_Witness ==
  /\ deletePending = <<>>
  /\ \E k \in CommentKeys :
       /\ Len(localStorage[k]) = 2
       /\ localStorage[k][1].text # localStorage[k][2].text
       /\ \A i \in 1..Len(Cache) :
            <<"ticket_comments_">> \o Cache[i].metadata.ticketId # k
       /\ \A i \in 1..Len(tickets) :
            <<"ticket_comments_">> \o tickets[i].metadata.ticketId # k

\* C18: the ids of the comments of one log are pairwise distinct.
C18_CommentIdsAreDistinct ==
  \A k \in CommentKeys :
     \A i, j \in 1..Len(localStorage[k]) :
        i # j => localStorage[k][i].id # localStorage[k][j].id

\* C19: an addComment call made through one ticket changes neither the
\* comment list nor the comment count of any ticket of the collection with
\* another issuer or another assetCode.
C19_CommentBelongsToOneTicket ==
  [][(IsAddComment /\ ~IsBlank(lastCall'.text)) =>
       \A i \in 1..Len(tickets) :
          (\/ tickets[i].issuer # lastCall'.ticket.issuer
           \/ tickets[i].assetCode # lastCall'.ticket.assetCode) =>
            /\ loadComments(tickets[i])' = loadComments(tickets[i])
            /\ getCommentCount(tickets[i])' = getCommentCount(tickets[i])]_vars

\* C20: a handleMint call that ends with the validation alert leaves
\* localStorage as it is and starts no mint; a mint is started, and a ticket
\* is cached, only with an event name and an event date that are not blank.
C20_BlankFormIsRejected ==
  [][/\ (mintAlert' = "error" /\ mintAlert # "error") =>
          /\ localStorage' = localStorage
          /\ mintPc = "idle" /\ mintPc' = "idle"
          /\ mintLocal' = NoMint
     /\ (mintPc = "idle" /\ mintPc' = "awaiting") =>
          /\ ~IsBlank(mintLocal'.eventName)
          /\ ~IsBlank(mintLocal'.metadata.eventDate)
          /\ mintAlert' # "error"
     /\ \A i \in 1..Len(Cache') :
          /\ ~IsBlank(Cache'[i].metadata.eventName)
          /\ ~IsBlank(Cache'[i].metadata.eventDate)]_vars

\* the validation alert is up after the first fetch, with nothing cached
\* and no mint pending
C20_Witness ==
  /\ mintAlert = "error"
  /\ mintPc = "idle"
  /\ fetchPc = "done"
  /\ Cache = <<>>

\* the TicketCache of holder pk, before and after the step
CacheOf(pk) ==
  IF <<"nft_tickets_", pk>> \in DOMAIN localStorage
  THEN localStorage[<<"nft_tickets_", pk>>] ELSE <<>>

NextCacheOf(pk) ==
  IF <<"nft_tickets_", pk>> \in DOMAIN localStorage'
  THEN localStorage'[<<"nft_tickets_", pk>>] ELSE <<>>

\* the step is the end of a handleMint run that succeeded
IsMintSuccess ==
  mintPc = "awaiting" /\ mintPc' = "idle" /\ mintAlert' = "success"

\* C21: a handleMint run that succeeds, submitted by holder I, puts one
\* ticket at the end of the TicketCache of I, with the asset code of its
\* type, event name and ticketId, issuer I, balance "1" and the submitted
\* type, name and date; the tickets cached before stay as they were and in
\* their order, and the TicketCache of every other holder is unchanged.
C21_MintAppendsOneTicket ==
  [][IsMintSuccess =>
       LET I == mintLocal.publicKey
           old == CacheOf(I)
           new == NextCacheOf(I)
           t == new[Len(new)]
       IN  /\ Len(new) = Len(old) + 1
           /\ \A i \in 1..Len(old) : new[i] = old[i]
           /\ t.assetCode =
                FirstN(PrefixOf(mintLocal.ticketType)
                         \o EventFragmentOf(t.metadata.eventName)
                         \o IdFragmentOf(t.metadata.ticketId), 12)
           /\ t.issuer = I
           /\ t.balance = "1"
           /\ t.metadata.type = mintLocal.ticketType
           /\ t.metadata.eventName = Trimmed(mintLocal.eventName)
           /\ t.metadata.eventDate = mintLocal.metadata.eventDate
           /\ t.metadata.ticketId = mintLocal.metadata.ticketId
           /\ \A pk \in Accounts \ {I} : NextCacheOf(pk) = CacheOf(pk)]_vars

\* a mint of GBBB has put a football ticket behind the ticket GBBB had
\* cached, while the cache of GAAA holds a ticket of its own
C21_Witness ==
  /\ mintAlert = "success"
  /\ Len(CacheOf("GBBB")) = 2
  /\ CacheOf("GBBB")[2].metadata.type = "football"
  /\ CacheOf("GBBB")[2].assetCode = <<"F","O","O","N","A","B","F","O","O","T">>
  /\ CacheOf("GBBB")[2].metadata.ticketId # CacheOf("GBBB")[1].metadata.ticketId
  /\ Len(CacheOf("GAAA")) = 1

\* C22: the TicketCache of a holder has at most one ticket for each pair of
\* issuer and assetCode, whatever mints and deletes have run.
C22_OneTicketPerIssuerAndCode ==
  \A pk \in Accounts :
     \A i, j \in 1..Len(CacheOf(pk)) :
        (/\ i # j
         /\ CacheOf(pk)[i].issuer = CacheOf(pk)[j].issuer) =>
          CacheOf(pk)[i].assetCode # CacheOf(pk)[j].assetCode

C24_TicketIdAndEventDateAreStable ==
  [][LET n == Len(blockchainTickets)
         m == Len(blockchainTickets')
     IN  /\ \A i \in 1..Min(n, m) :
              (/\ tickets[i].issuer = tickets'[i].issuer
               /\ tickets[i].assetCode = tickets'[i].assetCode) =>
                /\ tickets'[i].metadata.ticketId = tickets[i].metadata.ticketId
                /\ tickets'[i].metadata.eventDate = tickets[i].metadata.eventDate
         /\ \A k \in 1..Min(Len(tickets) - n, Len(tickets') - m) :
              /\ tickets'[m + k].metadata.ticketId = tickets[n + k].metadata.ticketId
              /\ tickets'[m + k].metadata.eventDate = tickets[n + k].metadata.eventDate]_vars

\* the ticketId has the form handleMint gives it for the type of the call
IsMintedId(ticketType, ticketId) ==
  /\ Len(ticketId) > Len(TypeChars(ticketType))
  /\ SubSeq(ticketId, 1, Len(TypeChars(ticketType))) = TypeChars(ticketType)
  /\ ticketId[Len(TypeChars(ticketType)) + 1] = "_"

\* C25: the code generateAssetCode returns for a type, a name that is not
\* blank and a ticketId of the minting workflow is accepted by
\* isLikelyTicket, and inferTicketType gives the type back.
C25_DecodeRecoversType ==
  \A i \in CallsOf("generateAssetCode") :
     (/\ IsMintedId(codecIn.ticketType, codecIn.ticketId)
      /\ ~IsBlank(codecIn.eventName)) =>
       /\ isLikelyTicket(codecCalls[i].result)
       /\ inferTicketType(codecCalls[i].result) = codecIn.ticketType

\* C26: every ticket stored under the key of holder H has issuer H and
\* balance "1", and so every cached ticket of the connected holder is one
\* isLocalTicket accepts.
C26_CachedTicketsAreTheHoldersOwn ==
  /\ \A H \in Accounts :
       \A i \in 1..Len(CacheOf(H)) :
          CacheOf(H)[i].issuer = H /\ CacheOf(H)[i].balance = "1"
  /\ \A i \in 1..Len(CacheOf(publicKey)) : isLocalTicket(CacheOf(publicKey)[i])

\* GBBB was connected while a mint of GAAA waited for its timer: the mint has
\* ended since (the collection is freshly mounted for GBBB), and its ticket
\* is the only one in the cache of GAAA
C26_Witness ==
  /\ publicKey = "GBBB"
  /\ mintAlert = "success"
  /\ loading /\ staleFetches = <<>>
  /\ Len(CacheOf("GAAA")) = 1
  /\ CacheOf("GBBB") = <<EarlierTicket("GBBB", 1)>>

\* the step is a confirmed deleteTicket call that isLocalTicket lets through
IsAcceptedDelete == IsConfirmedDelete /\ lastCall'.ticket.issuer = publicKey

\* C27: no update of a TicketCache is lost when mints and deletes overlap:
\* a mint that succeeds adds its ticket to whatever the cache holds at that
\* time, deletes made since it started included; an accepted delete takes
\* the entries with the ticketId of its ticket out of whatever the cache
\* holds, and no other step, the rest of a delete after its await included,
\* changes a cache.
C27_NoUpdateIsLost ==
  [][/\ IsMintSuccess =>
          /\ Len(NextCacheOf(mintLocal.publicKey)) =
               Len(CacheOf(mintLocal.publicKey)) + 1
          /\ \A i \in 1..Len(CacheOf(mintLocal.publicKey)) :
               NextCacheOf(mintLocal.publicKey)[i] = CacheOf(mintLocal.publicKey)[i]
          /\ NextCacheOf(mintLocal.publicKey)[Len(CacheOf(mintLocal.publicKey)) + 1]
               .metadata.ticketId = mintLocal.metadata.ticketId
     /\ IsAcceptedDelete =>
          LET Other(t) == t.metadata.ticketId # lastCall'.ticket.metadata.ticketId
          IN  NextCacheOf(publicKey) = SelectSeq(CacheOf(publicKey), Other)
     /\ ~IsMintSuccess /\ ~IsAcceptedDelete =>
          \A pk \in Accounts : NextCacheOf(pk) = CacheOf(pk)]_vars

\* the first minted ticket has been deleted while the second mint waits for
\* its timer, and the delete waits for the ledger
C27_Witness ==
  /\ mintPc = "awaiting"
  /\ mintLocal.startedAt = MintDelay
  /\ lastCall.op = "deleteTicket" /\ lastCall.confirmed
  /\ lastCall.ticket.issuer = publicKey
  /\ deletePending # <<>>
  /\ CacheOf(publicKey) = <<>>

\* the tickets of c whose type is f, in their order; c itself for 'all'
OfType(c, f) ==
  LET Match(t) == f = "all" \/ t.metadata.type = f
  IN  SelectSeq(c, Match)

\* C28: when no fetchTickets or deleteTicket run is pending and the effect
\* on (selectedFilter, tickets) has run, filteredTickets is the tickets of
\* the selected filter, whatever filter the runs that ended had captured.
C28_FilteredMatchesSelectedFilter ==
  (/\ fetchPc = "done"
   /\ deletePending = <<>>
   /\ staleFetches = <<>>
   /\ ~effectPending) =>
    filteredTickets = OfType(tickets, selectedFilter)

\* after a delete, with the filter 'event' selected, the collection shows
\* the one cached ticket left and not the football ticket of the ledger
C28_Witness ==
  /\ fetchPc = "done" /\ deletePending = <<>> /\ ~effectPending
  /\ selectedFilter = "event"
  /\ Len(CacheOf(publicKey)) = 1
  /\ Len(tickets) = 2
  /\ tickets[1].metadata.type = "football"
  /\ filteredTickets = <<tickets[2]>>
  /\ CacheOf(publicKey)[1].metadata.ticketId =
       <<"e","v","e","n","t","_","2","0","0","0","_","k">>
  /\ mintAlert = "success"

\* the ticket holdings of account pk, in the order of its balance list
HoldingsOf(pk) == SelectSeq(ledger[pk], IsTicketHolding)

\* c is the collection of holder pk: the tickets of its holdings, or none of
\* them when the account could not be loaded, followed by its TicketCache
IsCollectionOf(c, pk) ==
  \E n \in {0, Len(HoldingsOf(pk))} :
     /\ Len(c) = n + Len(CacheOf(pk))
     /\ \A i \in 1..n :
          /\ c[i].issuer = HoldingsOf(pk)[i].asset_issuer
          /\ c[i].assetCode = HoldingsOf(pk)[i].asset_code
     /\ \A j \in 1..Len(CacheOf(pk)) : c[n + j] = CacheOf(pk)[j]

\* C29: once every fetchTickets run has ended and the effect has run, the
\* collection shown is the one of the connected holder, also when the holder
\* was connected while a run for another holder was pending, and whichever
\* of the runs ended last.
C29_CollectionIsTheConnectedHolders ==
  (/\ fetchPc = "done"
   /\ staleFetches = <<>>
   /\ ~effectPending) =>
    IsCollectionOf(tickets, publicKey)

\* C30: every fetchTickets run that is pending comes to its end with
\* loading and refreshing false, and every handleMint run that waits for its
\* timer comes to its end with loading false, whether localStorage works or
\* throws and whether the account could be loaded or not.
C30_BusyFlagsAreCleared ==
  /\ (fetchPc = "awaiting") ~> (fetchPc = "done" /\ ~loading /\ ~refreshing)
  /\ (mintPc = "awaiting") ~> (mintPc = "idle" /\ ~mintLoading)

\* with a localStorage that throws, a fetch has ended without a collection
\* and a mint has ended with the error alert when its timer fired, all busy
\* flags cleared
C30_Witness ==
  /\ storageThrows
  /\ fetchPc = "done" /\ ~loading /\ ~refreshing
  /\ horizonReply = "loaded" /\ tickets = <<>>
  /\ now >= MintDelay
  /\ mintPc = "idle" /\ mintAlert = "error" /\ ~mintLoading

====
